---- MODULE Spec2Model ----
(***************************************************************************)
(* Model of pydemolib/nessiedemo/spark.py: the NessieDemoSpark session     *)
(* manager (construction, get_or_create_spark_context, session_for_ref,    *)
(* dispose) and the module-level registry __NESSIE_SPARK_DEMO__            *)
(* (spark_for_demo, spark_dispose).                                        *)
(*                                                                         *)
(* An object's attributes are a function from attribute NAMES to values,   *)
(* so that the difference between `self.__spark` (compiled inside the      *)
(* class body, hence name-mangled) and `delattr(self, "__spark")` (a       *)
(* string literal, never mangled) is part of the model.                    *)
(* Strings that the code inspects character by character (the tarball URL) *)
(* are sequences of one-character strings.                                 *)
(*                                                                         *)
(* pydemolib/tests/util.py: the teardown finalizer of the test fixture,    *)
(* which works on the file nessie.pid of the assets directory; `pidfile`   *)
(* is the process id the file holds, or None when there is no such file.   *)
(***************************************************************************)
EXTENDS Integers, Sequences, FiniteSets, TLC

VARIABLES mgrs, current, sessions, contexts, engine, fs, environ,
          mstops, last, nops, pidfile

vars == <<mgrs, current, sessions, contexts, engine, fs, environ,
          mstops, last, nops, pidfile>>

\* ---------------------------------------------------------------- bounds
MaxOps == 3
Refs == {"main", "feature-1"}

\* Python's None for the integer-valued slots of the model.
None == 0

\* ------------------------------------------------- attribute name handling
ClassName == "NessieDemoSpark"

\* Private name mangling of an identifier `__x` used inside the class body.
Mangle(name) == "_" \o ClassName \o name

\* `self.__x` inside the class body reads/writes the mangled attribute.
SelfAttr(name) == Mangle(name)

\* delattr(self, "__x") receives the string literal as written.
DelattrName(name) == name

HasAttr(obj, name) == name \in DOMAIN obj

SetAttr(obj, name, val) ==
    [n \in (DOMAIN obj) \cup {name} |-> IF n = name THEN val ELSE obj[n]]

DelAttr(obj, name) == [n \in (DOMAIN obj) \ {name} |-> obj[n]]

EmptyObj == [n \in {} |-> None]

\* ------------------------------------------------------- tarball URL regex
Letters == {"a","b","c","d","e","f","g","h","i","j","k","l","m","n","o","p","q",
            "r","s","t","u","v","w","x","y","z",
            "A","B","C","D","E","F","G","H","I","J","K","L","M","N","O","P","Q",
            "R","S","T","U","V","W","X","Y","Z"}
Digits == {"0","1","2","3","4","5","6","7","8","9"}

\* The character class [a-zA-Z0-9-.]
IsNameChar(c) == c \in Letters \cup Digits \cup {"-", "."}

TgzSuffix == <<".", "t", "g", "z">>

\* Pairs <<i, j>>: `.*` consumed url[1..i-1], url[i] is the "/", the group is
\* url[i+1..j], and ".tgz" follows at j+1..j+4.  re.match anchors the start
\* of the string only; whatever follows position j+4 is not looked at.
MatchCandidates(url) ==
    {ij \in (1..Len(url)) \X (1..Len(url)) :
        /\ url[ij[1]] = "/"
        /\ \A k \in 1..(ij[1] - 1) : url[k] # "\n"
        /\ ij[2] >= ij[1] + 1
        /\ \A k \in (ij[1] + 1)..ij[2] : IsNameChar(url[k])
        /\ ij[2] + 4 <= Len(url)
        /\ SubSeq(url, ij[2] + 1, ij[2] + 4) = TgzSuffix}

ReMatches(url) == MatchCandidates(url) # {}

\* Greedy `.*` takes the right-most "/", then the greedy group the longest name.
ReGroup1(url) ==
    LET C  == MatchCandidates(url)
        i  == CHOOSE x \in {c[1] : c \in C} : \A y \in {c[1] : c \in C} : y <= x
        Js == {c[2] : c \in {d \in C : d[1] = i}}
        j  == CHOOSE x \in Js : \A y \in Js : y <= x
    IN  SubSeq(url, i + 1, j)

\* Tarball URLs offered by the versions dictionary: "h/" ++ stem ++ suffix.
UrlHead == <<"h", "/">>
UrlStems == { <<"a", "-", "1">>, <<"B", ".", "2">>, <<"_">>, <<>> }
UrlTails == { TgzSuffix,
              <<".", "z", "i", "p">>,
              TgzSuffix \o <<".", "z", "i", "p">>,
              TgzSuffix \o <<"/", "c", ".", "z", "i", "p">> }
Urls == {UrlHead \o s \o t : s \in UrlStems, t \in UrlTails}

\* The two URLs the lifecycle operations are exercised with: a well-formed one
\* and one that is not a .tgz.
MainUrls == { UrlHead \o <<"a", "-", "1">> \o TgzSuffix,
             UrlHead \o <<"a", "-", "1">> \o <<".", "z", "i", "p">> }

\* ------------------------------------------------------------- exceptions
NoExc == "none"
AttributeError == "AttributeError"
InvalidUrl == "Exception"
ExternalError == "Error"

\* Points at which an external call made by an operation can fail.
FailPoints == {"none", "session.stop", "demo.stop", "wget", "tar",
               "getOrCreate", "java_import"}

Call(fn, on) == [fn |-> fn, on |-> on]

Raise(st, e) == [st EXCEPT !.exc = e]

\* The last logged external call fails.
Fails(st) == [st EXCEPT !.exc = ExternalError, !.failed = st.calls[Len(st.calls)].fn]
Log(st, fn, on) == [st EXCEPT !.calls = Append(@, Call(fn, on))]

\* Sequential composition: the rest of a body is skipped once an exception
\* is in flight.
Then(st, F(_)) == IF st.exc # NoExc THEN st ELSE F(st)

\* ------------------------------------------------- program state as a value
\* The operations are written as functions from a program state `st` to the
\* program state after them; `exc` is the exception in flight, `calls` the
\* external calls made so far by the running operation, `ret` its result.
State ==
    [mgrs |-> mgrs, current |-> current, sessions |-> sessions,
     contexts |-> contexts, engine |-> engine, fs |-> fs, environ |-> environ,
     mstops |-> mstops,
     exc |-> NoExc, failed |-> "none", calls |-> <<>>, ret |-> <<>>]

\* ----------------------------------------------------- external collaborators
\* _Util.wget(spark_url, tgz): on success the archive file exists.
Wget(st, tgz, fail) ==
    LET s1 == Log(st, "wget", 0)
    IN  IF fail = "wget" THEN Fails(s1)
        ELSE [s1 EXCEPT !.fs = @ \cup {tgz}]

\* _Util.exec_fail(["tar", "-x", ...]): on success the directory named after
\* the archive exists under the asset root.
TarExtract(st, dir, fail) ==
    LET s1 == Log(st, "tar", 0)
    IN  IF fail = "tar" THEN Fails(s1)
        ELSE [s1 EXCEPT !.fs = @ \cup {dir}]

\* demo.stop() of the NessieDemo handle h, called by manager m.
DemoStop(st, m, h, fail) ==
    LET s1 == Log(st, "demo.stop", h)
    IN  IF fail = "demo.stop" THEN Fails(s1)
        ELSE [s1 EXCEPT !.mstops[m].demo = @ + 1]

\* SparkSession.stop(): stops the session's SparkContext and clears the
\* process-wide instantiated session and active context.
SessionStop(st, m, s, fail) ==
    LET s1 == Log(st, "session.stop", s)
    IN  IF fail = "session.stop" THEN Fails(s1)
        ELSE [s1 EXCEPT !.sessions[s].stopped = TRUE,
                        !.contexts[st.sessions[s].ctx].stopped = TRUE,
                        !.engine.instantiated = None,
                        !.engine.active = None,
                        !.mstops[m].sess = @ + 1]

\* SparkContext._active_spark_context.stop()
ActiveContextStop(st) ==
    IF st.engine.active = None THEN Raise(st, AttributeError)
    ELSE LET s1 == Log(st, "context.stop", st.engine.active)
         IN  [s1 EXCEPT !.contexts[st.engine.active].stopped = TRUE,
                        !.engine.active = None]

\* SparkContext._gateway.shutdown()
GatewayShutdown(st) ==
    IF st.engine.gateway = None THEN Raise(st, AttributeError)
    ELSE LET s1 == Log(st, "gateway.shutdown", 0)
         IN  [s1 EXCEPT !.engine.gatewayUp = FALSE]

\* SparkSession.builder.config(conf=conf).getOrCreate(): the instantiated
\* session is reused while its context is alive and the options of conf are
\* applied to it; otherwise a context and a session are created.
GetOrCreate(st, ref, fail) ==
    LET s1 == Log(st, "getOrCreate", 0)
        cur == st.engine.instantiated
        reuse == cur # None /\ ~st.contexts[st.sessions[cur].ctx].stopped
        newCtx == st.engine.active = None
        c == IF newCtx THEN Len(st.contexts) + 1 ELSE st.engine.active
        n == Len(st.sessions) + 1
    IN  IF fail = "getOrCreate" THEN Fails(s1)
        ELSE IF reuse
        THEN [s1 EXCEPT !.sessions[cur].ref = ref, !.ret = <<cur>>]
        ELSE [s1 EXCEPT
                !.contexts = IF newCtx
                             THEN Append(@, [stopped |-> FALSE, confRef |-> ref])
                             ELSE @,
                !.sessions = Append(@, [ctx |-> c, ref |-> ref, stopped |-> FALSE]),
                !.engine = [instantiated |-> n, active |-> c, gateway |-> 1,
                            jvm |-> 1, gatewayUp |-> TRUE],
                !.ret = <<n>>]

\* java_import(jvm, ...), five times
JavaImport(st, fail) ==
    LET s1 == Log(st, "java_import", 0)
    IN  IF fail = "java_import" THEN Fails(s1) ELSE s1

\* spark.newSession(): a session of its own on the same SparkContext, its
\* conf starting from the context's.  On a stopped context the engine either
\* rejects the call or hands out a session on the dead context.
NewSession(st, s, rejects) ==
    LET s1 == Log(st, "newSession", s)
        c  == st.sessions[s].ctx
    IN  IF st.contexts[c].stopped /\ rejects THEN Fails(s1)
        ELSE [s1 EXCEPT
                !.sessions = Append(@, [ctx |-> c, ref |-> st.contexts[c].confRef,
                                        stopped |-> FALSE]),
                !.ret = <<Len(st.sessions) + 1>>]

\* new_session.conf.set("spark.sql.catalog.nessie.ref", nessie_ref)
ConfSetRef(st, s, ref) == [st EXCEPT !.sessions[s].ref = ref]

\* ------------------------------------------------------ NessieDemoSpark
AssetDir(name) == name

\* Variant: the archive is downloaded whether or not it is already there.
NessieDemoSpark_init_AlwaysFetch(st, demo, spark_url, fail) ==
    LET self     == SetAttr(EmptyObj, SelfAttr("__demo"), demo)
        dir_name == ReGroup1(spark_url)
        spark_dir == AssetDir(dir_name)
        tgz      == AssetDir(dir_name \o TgzSuffix)
        Prepare(s) ==
            IF spark_dir \notin s.fs
            THEN Then(Wget(s, tgz, fail), LAMBDA t : TarExtract(t, spark_dir, fail))
            ELSE s
        Finish(s) ==
            [s EXCEPT !.environ = spark_dir,
                      !.mgrs = Append(@, self),
                      !.mstops = Append(@, [sess |-> 0, demo |-> 0]),
                      !.ret = <<Len(s.mgrs) + 1>>]
    IN  IF ~ReMatches(spark_url) THEN Raise(st, InvalidUrl)
        ELSE Then(Prepare(st), Finish)

\* NessieDemoSpark.__init__(demo); the tarball URL is what the versions
\* dictionary of the demo holds.  The object is appended to mgrs when the
\* constructor returns; an object whose constructor raised is unreachable.
NessieDemoSpark_init(st, demo, spark_url, fail) ==
    LET self     == SetAttr(EmptyObj, SelfAttr("__demo"), demo)
        dir_name == ReGroup1(spark_url)
        spark_dir == AssetDir(dir_name)
        tgz      == AssetDir(dir_name \o TgzSuffix)
        Fetch(s) == IF tgz \notin s.fs THEN Wget(s, tgz, fail) ELSE s
        Prepare(s) ==
            IF spark_dir \notin s.fs
            THEN Then(Fetch(s), LAMBDA t : TarExtract(t, spark_dir, fail))
            ELSE s
        Finish(s) ==
            [s EXCEPT !.environ = spark_dir,
                      !.mgrs = Append(@, self),
                      !.mstops = Append(@, [sess |-> 0, demo |-> 0]),
                      !.ret = <<Len(s.mgrs) + 1>>]
    IN  IF ~ReMatches(spark_url) THEN Raise(st, InvalidUrl)
        ELSE Then(Prepare(st), Finish)

\* Reading self.__x: the value, or AttributeError when the attribute is absent.
ReadsAttr(st, m, name) == HasAttr(st.mgrs[m], SelfAttr(name))
AttrOf(st, m, name) == st.mgrs[m][SelfAttr(name)]
WriteAttr(st, m, name, val) ==
    [st EXCEPT !.mgrs[m] = SetAttr(@, SelfAttr(name), val)]

\* delattr(self, "<name>")
Delattr(st, m, name) ==
    IF HasAttr(st.mgrs[m], DelattrName(name))
    THEN [st EXCEPT !.mgrs[m] = DelAttr(@, DelattrName(name))]
    ELSE Raise(st, AttributeError)

\* __spark_conf reads self.__demo for the warehouse, version and API URI.
spark_conf(st, m) ==
    IF ReadsAttr(st, m, "__demo") THEN st ELSE Raise(st, AttributeError)

\* __jvm_for_iceberg(spark_context)
jvm_for_iceberg(st, fail) ==
    LET s1 == JavaImport(st, fail)
    IN  IF s1.exc # NoExc THEN s1 ELSE [s1 EXCEPT !.ret = <<st.engine.jvm>>]

\* NessieDemoSpark.get_or_create_spark_context(nessie_ref)
get_or_create_spark_context(st, m, nessie_ref, fail) ==
    LET Build(s) == GetOrCreate(s, nessie_ref, fail)
        StoreSpark(s) == WriteAttr(s, m, "__spark", s.ret[1])
        StoreContext(s) ==
            WriteAttr(s, m, "__spark_context",
                      s.sessions[AttrOf(s, m, "__spark")].ctx)
        Bridge(s) == jvm_for_iceberg(s, fail)
        StoreJvm(s) == WriteAttr(s, m, "__jvm", s.ret[1])
        Result(s) == [s EXCEPT !.ret = <<AttrOf(s, m, "__spark"),
                                         AttrOf(s, m, "__spark_context"),
                                         AttrOf(s, m, "__jvm")>>]
    IN  Then(Then(Then(Then(Then(Then(spark_conf(st, m),
            Build), StoreSpark), StoreContext), Bridge), StoreJvm), Result)

\* Variant: a missing base session is passed over in silence.
session_for_ref_Silent(st, m, nessie_ref, rejects) ==
    IF ~ReadsAttr(st, m, "__spark") THEN st
    ELSE LET Derive(s) == NewSession(s, AttrOf(s, m, "__spark"), rejects)
             Configure(s) == ConfSetRef(s, s.ret[1], nessie_ref)
         IN  Then(Then(st, Derive), Configure)

\* Variant: the reference is set on the base session's conf.
session_for_ref_SetsBase(st, m, nessie_ref, rejects) ==
    IF ~ReadsAttr(st, m, "__spark") THEN Raise(st, AttributeError)
    ELSE LET Derive(s) == NewSession(s, AttrOf(s, m, "__spark"), rejects)
             Configure(s) == ConfSetRef(s, AttrOf(s, m, "__spark"), nessie_ref)
         IN  Then(Then(st, Derive), Configure)

\* NessieDemoSpark.session_for_ref(nessie_ref)
session_for_ref(st, m, nessie_ref, rejects) ==
    IF ~ReadsAttr(st, m, "__spark") THEN Raise(st, AttributeError)
    ELSE LET Derive(s) == NewSession(s, AttrOf(s, m, "__spark"), rejects)
             Configure(s) == ConfSetRef(s, s.ret[1], nessie_ref)
         IN  Then(Then(st, Derive), Configure)

\* Variant: the handler names the wrong exception class.
DisposeCatchesKeyError(e) == e = "KeyError"

\* `except AttributeError: pass`
DisposeCatches(e) == e = AttributeError

Swallow(st) == IF DisposeCatches(st.exc) THEN [st EXCEPT !.exc = NoExc] ELSE st

\* Variant: the first try-block has no handler of its own, so whatever it
\* raises leaves dispose.
DisposeSession_NoCatch(st, m, fail) ==
    LET Stop(s) == SessionStop(s, m, AttrOf(s, m, "__spark"), fail)
        Del1(s) == Delattr(s, m, "__spark")
        Del2(s) == Delattr(s, m, "__spark_context")
        Del3(s) == Delattr(s, m, "__jvm")
        ClearRefs(s) == [s EXCEPT !.engine.gateway = None, !.engine.jvm = None]
    IN  IF ~ReadsAttr(st, m, "__spark") THEN Raise(st, AttributeError)
        ELSE Then(Then(Then(Then(Then(Then(Then(st,
                Stop), Del1), Del2), Del3),
                ActiveContextStop), GatewayShutdown), ClearRefs)

\* First try-block of dispose.
DisposeSession(st, m, fail) ==
    LET Stop(s) == SessionStop(s, m, AttrOf(s, m, "__spark"), fail)
        Del1(s) == Delattr(s, m, "__spark")
        Del2(s) == Delattr(s, m, "__spark_context")
        Del3(s) == Delattr(s, m, "__jvm")
        ClearRefs(s) == [s EXCEPT !.engine.gateway = None, !.engine.jvm = None]
        Body == IF ~ReadsAttr(st, m, "__spark") THEN Raise(st, AttributeError)
                ELSE Then(Then(Then(Then(Then(Then(Then(st,
                        Stop), Del1), Del2), Del3),
                        ActiveContextStop), GatewayShutdown), ClearRefs)
    IN  Swallow(Body)

\* Second try-block of dispose.
DisposeDemo(st, m, fail) ==
    LET Stop(s) == DemoStop(s, m, AttrOf(s, m, "__demo"), fail)
        Del(s) == Delattr(s, m, "__demo")
        Body == IF ~ReadsAttr(st, m, "__demo") THEN Raise(st, AttributeError)
                ELSE Then(Then(st, Stop), Del)
    IN  Swallow(Body)

\* NessieDemoSpark.dispose()
dispose(st, m, fail) ==
    Then(DisposeSession(st, m, fail), LAMBDA s : DisposeDemo(s, m, fail))

\* NessieDemoSpark.__enter__()
NessieDemoSpark_enter(st, m) == [st EXCEPT !.ret = <<m>>]

\* Variant: the manager is disposed of only when the body raised nothing.
NessieDemoSpark_exit_OnSuccessOnly(st, m, exc_type, fail) ==
    IF exc_type = "None" THEN dispose(st, m, fail) ELSE st

\* NessieDemoSpark.__exit__(exc_type, exc_val, exc_tb); it returns None, so an
\* exception of the body goes on to the caller of the with-statement.
NessieDemoSpark_exit(st, m, exc_type, fail) == dispose(st, m, fail)

\* ------------------------------------------------------------- registry
\* Variant: the registered manager is disposed of but stays registered.
spark_dispose_KeepsSlot(st, fail) ==
    IF st.current # None
    THEN dispose(st, st.current, fail)
    ELSE st

\* spark_dispose()
spark_dispose(st, fail) ==
    IF st.current # None
    THEN Then(dispose(st, st.current, fail),
              LAMBDA s : [s EXCEPT !.current = None])
    ELSE st

\* Variant: the registered manager is replaced without being disposed of.
spark_for_demo_NoDispose(st, demo, nessie_ref, spark_url, fail) ==
    LET New(s) == NessieDemoSpark_init(s, demo, spark_url, fail)
        Register(s) == [s EXCEPT !.current = s.ret[1]]
        Create(s) == get_or_create_spark_context(s, s.current, nessie_ref, fail)
        Result(s) == [s EXCEPT !.ret = Append(@, s.current)]
    IN  Then(Then(Then(Then(st, New), Register), Create), Result)

\* spark_for_demo(demo, nessie_ref)
spark_for_demo(st, demo, nessie_ref, spark_url, fail) ==
    LET New(s) == NessieDemoSpark_init(s, demo, spark_url, fail)
        Register(s) == [s EXCEPT !.current = s.ret[1]]
        Create(s) == get_or_create_spark_context(s, s.current, nessie_ref, fail)
        Result(s) == [s EXCEPT !.ret = Append(@, s.current)]
    IN  Then(Then(Then(Then(spark_dispose(st, fail),
            New), Register), Create), Result)

\* ------------------------------------------------------------ state machine
NoUrl == <<>>

Init ==
    /\ mgrs = <<>>
    /\ current = None
    /\ sessions = <<>>
    /\ contexts = <<>>
    /\ engine = [instantiated |-> None, active |-> None, gateway |-> None,
                 jvm |-> None, gatewayUp |-> FALSE]
    /\ fs = {}
    /\ environ = NoUrl
    /\ mstops = <<>>
    /\ last = [op |-> "start", mgr |-> None, ref |-> "",
               url |-> NoUrl, exc |-> NoExc, failed |-> "none",
               calls |-> <<>>, ret |-> <<>>]
    /\ nops = 0
    /\ pidfile = None

\* The program state after an operation, and the record of the operation.
Commit(res, op, m, ref, url) ==
    /\ nops' = nops + 1
    /\ mgrs' = res.mgrs
    /\ current' = res.current
    /\ sessions' = res.sessions
    /\ contexts' = res.contexts
    /\ engine' = res.engine
    /\ fs' = res.fs
    /\ environ' = res.environ
    /\ mstops' = res.mstops
    /\ UNCHANGED pidfile
    /\ last' = [op |-> op, mgr |-> m, ref |-> ref, url |-> url,
                exc |-> res.exc, failed |-> res.failed, calls |-> res.calls,
                ret |-> IF res.exc = NoExc THEN res.ret ELSE <<>>]

Managers == 1..Len(mgrs)

\* The NessieDemo handle a caller passes to a construction: each construction
\* is given a handle of its own.
Handles == {Len(mgrs) + 1}

\* NessieDemoSpark(demo)
Construct ==
    \E demo \in Handles, url \in MainUrls, fail \in {"none", "wget", "tar"} :
        /\ nops < MaxOps
        /\ Commit(NessieDemoSpark_init(State, demo, url, fail),
                  "init", None, "", url)

\* m.get_or_create_spark_context(ref)
CreateOrGetSession ==
    \E m \in Managers, ref \in Refs, fail \in {"none", "getOrCreate", "java_import"} :
        /\ nops < MaxOps
        /\ Commit(get_or_create_spark_context(State, m, ref, fail),
                  "get_or_create_spark_context", m, ref, NoUrl)

\* m.session_for_ref(ref)
SessionForReference ==
    \E m \in Managers, ref \in Refs, rejects \in BOOLEAN :
        /\ nops < MaxOps
        /\ Commit(session_for_ref(State, m, ref, rejects),
                  "session_for_ref", m, ref, NoUrl)

\* m.dispose()
Dispose ==
    \E m \in Managers, fail \in {"none", "session.stop", "demo.stop"} :
        /\ nops < MaxOps
        /\ Commit(dispose(State, m, fail),
                  "dispose", m, "", NoUrl)

\* spark_for_demo(demo, ref)
CreateForEnvironment ==
    \E demo \in Handles, ref \in Refs, url \in MainUrls, fail \in FailPoints :
        /\ nops < MaxOps
        /\ Commit(spark_for_demo(State, demo, ref, url, fail),
                  "spark_for_demo", current, ref, url)

\* spark_dispose()
DisposeCurrent ==
    \E fail \in {"none", "session.stop", "demo.stop"} :
        /\ nops < MaxOps
        /\ Commit(spark_dispose(State, fail),
                  "spark_dispose", current, "", NoUrl)

\* What the with-statement passes to __exit__ as exc_type: None when the body
\* ended normally, the exception's class when it raised.
ExcTypes == {"None", "Exception"}

\* m.__enter__()
Enter ==
    \E m \in Managers :
        /\ nops < MaxOps
        /\ Commit(NessieDemoSpark_enter(State, m),
                  "__enter__", m, "", NoUrl)

\* m.__exit__(exc_type, exc_val, exc_tb); the record of the operation keeps
\* exc_type in the slot of the string argument.
Exit ==
    \E m \in Managers, exc_type \in ExcTypes,
       fail \in {"none", "session.stop", "demo.stop"} :
        /\ nops < MaxOps
        /\ Commit(NessieDemoSpark_exit(State, m, exc_type, fail),
                  "__exit__", m, exc_type, NoUrl)

Next ==
    \/ Construct
    \/ CreateOrGetSession
    \/ SessionForReference
    \/ Dispose
    \/ CreateForEnvironment
    \/ DisposeCurrent

Spec == Init /\ [][Next]_vars

\* Only the registry's two entry points are used by the caller.
NextRegistry ==
    \/ CreateForEnvironment
    \/ DisposeCurrent

SpecRegistry == Init /\ [][NextRegistry]_vars

\* m.dispose() by a caller of spark_for_demo on a manager it was returned:
\* spark_for_demo returns once the bridge handle has been stored.
DisposeReturned ==
    \E m \in {r \in Managers : HasAttr(mgrs[r], SelfAttr("__jvm"))},
       fail \in {"none", "session.stop", "demo.stop"} :
        /\ nops < MaxOps
        /\ Commit(dispose(State, m, fail),
                  "dispose", m, "", NoUrl)

\* The registry's entry points and dispose() on the managers they returned.
NextReturned ==
    \/ CreateForEnvironment
    \/ DisposeCurrent
    \/ DisposeReturned

SpecReturned == Init /\ [][NextReturned]_vars

\* A manager used as a context manager.
NextContext ==
    \/ Construct
    \/ CreateOrGetSession
    \/ SessionForReference
    \/ Enter
    \/ Exit

SpecContext == Init /\ [][NextContext]_vars

\* Construction alone, over every tarball URL.
ConstructAny ==
    \E demo \in Handles, url \in Urls, fail \in {"none", "wget", "tar"} :
        /\ nops < MaxOps
        /\ Commit(NessieDemoSpark_init(State, demo, url, fail),
                  "init", None, "", url)

NextUrl == ConstructAny

SpecUrl == Init /\ [][NextUrl]_vars

\* ------------------------------------------------------------ test fixture
\* Process ids a nessie.pid file can hold.
Pids == {4711, 4712}

\* __kill_running_nessie(): the file after it, the calls it made and which of
\* them failed.  OSError from os.kill or os.unlink is caught by the one
\* handler that encloses both.
kill_running_nessie(pf, fail) ==
    IF pf = None
    THEN [pidfile |-> pf, calls |-> <<>>, failed |-> "none"]
    ELSE IF fail = "os.kill"
    THEN [pidfile |-> pf, calls |-> <<Call("os.kill", pf)>>, failed |-> "os.kill"]
    ELSE IF fail = "os.unlink"
    THEN [pidfile |-> pf,
          calls |-> <<Call("os.kill", pf), Call("os.unlink", 0)>>,
          failed |-> "os.unlink"]
    ELSE [pidfile |-> None,
          calls |-> <<Call("os.kill", pf), Call("os.unlink", 0)>>,
          failed |-> "none"]

\* A Nessie server is started and its process id written to nessie.pid.
NessieStarts ==
    \E pid \in Pids :
        /\ nops < MaxOps
        /\ nops' = nops + 1
        /\ pidfile' = pid
        /\ last' = [op |-> "nessie_start", mgr |-> None, ref |-> "",
                    url |-> NoUrl, exc |-> NoExc, failed |-> "none",
                    calls |-> <<>>, ret |-> <<>>]
        /\ UNCHANGED <<mgrs, current, sessions, contexts, engine, fs, environ,
                       mstops>>

\* The finalizer registered by demo_setup_fixture_for_tests runs.
KillRunningNessie ==
    \E fail \in {"none", "os.kill", "os.unlink"} :
        /\ nops < MaxOps
        /\ nops' = nops + 1
        /\ pidfile' = kill_running_nessie(pidfile, fail).pidfile
        /\ last' = [op |-> "__kill_running_nessie", mgr |-> None, ref |-> "",
                    url |-> NoUrl, exc |-> NoExc,
                    failed |-> kill_running_nessie(pidfile, fail).failed,
                    calls |-> kill_running_nessie(pidfile, fail).calls,
                    ret |-> <<>>]
        /\ UNCHANGED <<mgrs, current, sessions, contexts, engine, fs, environ,
                       mstops>>

\* Tests construct managers in the assets directory, start Nessie servers
\* and are torn down.
NextFixture ==
    \/ ConstructAny
    \/ NessieStarts
    \/ KillRunningNessie

SpecFixture == Init /\ [][NextFixture]_vars

\* ------------------------------------------------------------------ claims
SessionFields == {"__spark", "__spark_context", "__jvm"}
AllFields == SessionFields \cup {"__demo"}

Present(obj, name) == HasAttr(obj, SelfAttr(name))

CallNames(calls) == {calls[i].fn : i \in 1..Len(calls)}

\* C1: a dispose() called directly after a returned dispose() of the same
\* manager makes no stop() call, leaves the engine's process-wide state alone
\* and changes no field of the manager.
C1_SecondDisposeIsNoOp ==
    [][(/\ last.op = "dispose" /\ last.exc = NoExc
        /\ last'.op = "dispose" /\ last'.mgr = last.mgr)
       => (/\ last'.calls = <<>>
           /\ engine' = engine /\ sessions' = sessions /\ contexts' = contexts
           /\ mgrs' = mgrs)]_vars

\* C2: dispose() returns normally whenever none of the external stop() calls
\* it makes fails, whatever the state of the manager.
C2_DisposeReturns ==
    (last.op = "dispose" /\ last.failed = "none") => last.exc = NoExc

\* A second dispose() of a manager that holds a session has returned.
C2_Witness ==
    /\ last.op = "dispose" /\ last.exc = NoExc /\ last.failed = "none"
    /\ Present(mgrs[last.mgr], "__spark")
    /\ mstops[last.mgr].demo >= 2

\* C3: once dispose() has returned on a manager that held a session, none of
\* its four fields is present.
C3_AllFieldsCleared ==
    [][(/\ last'.op = "dispose" /\ last'.exc = NoExc
        /\ Present(mgrs[last'.mgr], "__spark"))
       => \A f \in AllFields : ~Present(mgrs'[last'.mgr], f)]_vars

\* C4: in every reachable state each manager has session, runtime context and
\* bridge handle all present or all absent.
C4_TripleAsUnit ==
    \A m \in Managers :
        \/ \A f \in SessionFields : Present(mgrs[m], f)
        \/ \A f \in SessionFields : ~Present(mgrs[m], f)

\* Managers holding a session on which stop() has not been called.
LiveHolders ==
    {m \in Managers : /\ Present(mgrs[m], "__spark")
                      /\ ~sessions[mgrs[m][SelfAttr("__spark")]].stopped}

\* Within one operation every session stop() precedes getOrCreate.
StopsBeforeCreate(calls) ==
    \A i, j \in 1..Len(calls) :
        (calls[i].fn = "session.stop" /\ calls[j].fn = "getOrCreate") => i < j

\* C5: using only spark_for_demo and spark_dispose, at most one manager holds
\* a session that is not stopped, and spark_for_demo stops the registered
\* manager's session before it creates the new one.
C5_SingleLiveSession ==
    /\ Cardinality(LiveHolders) <= 1
    /\ last.op = "spark_for_demo" => StopsBeforeCreate(last.calls)

\* A second manager got its session after the first one's was stopped.
C5_Witness ==
    /\ last.op = "spark_for_demo" /\ last.exc = NoExc
    /\ Cardinality(LiveHolders) = 1
    /\ "session.stop" \in CallNames(last.calls)
    /\ \E m \in Managers : m # current /\ Present(mgrs[m], "__spark")

\* C6: when spark_for_demo returns directly after another spark_for_demo and
\* was given another NessieDemo handle, the
\* first manager has lost session, runtime context and bridge handle and the
\* registry holds the manager returned as fourth element.
C6_ReplaceClearsFirst ==
    [][(/\ last.op = "spark_for_demo" /\ last.exc = NoExc
        /\ last'.op = "spark_for_demo" /\ last'.exc = NoExc
        /\ mgrs'[last'.ret[4]][SelfAttr("__demo")] # mgrs[current][SelfAttr("__demo")])
       => (/\ \A f \in SessionFields : ~Present(mgrs'[current], f)
           /\ current' = last'.ret[4]
           /\ current' # current)]_vars

\* C7: session_for_ref on a manager that has no session raises, creates no
\* session and leaves managers, registry and engine as they were.
C7_NoBaseSessionFails ==
    [][(/\ last'.op = "session_for_ref"
        /\ ~Present(mgrs[last'.mgr], "__spark"))
       => (/\ last'.exc # NoExc
           /\ last'.calls = <<>>
           /\ sessions' = sessions /\ contexts' = contexts /\ engine' = engine
           /\ mgrs' = mgrs /\ current' = current)]_vars

\* session_for_ref was refused on a constructed manager without a session.
C7_Witness ==
    /\ last.op = "session_for_ref" /\ last.exc = AttributeError
    /\ ~Present(mgrs[last.mgr], "__spark")

BaseOf(m) == mgrs[m][SelfAttr("__spark")]

\* C8: on a manager whose running base session is configured with "main",
\* session_for_ref(r) returns another session on the base session's context
\* whose reference is r; the base session keeps "main" and the manager keeps
\* its fields.
C8_DerivedSession ==
    [][(/\ last'.op = "session_for_ref"
        /\ Present(mgrs[last'.mgr], "__spark")
        /\ ~contexts[sessions[BaseOf(last'.mgr)].ctx].stopped
        /\ sessions[BaseOf(last'.mgr)].ref = "main")
       => (/\ last'.exc = NoExc
           /\ Len(last'.ret) = 1
           /\ last'.ret[1] # BaseOf(last'.mgr)
           /\ last'.ret[1] \notin 1..Len(sessions)
           /\ sessions'[last'.ret[1]].ctx = sessions[BaseOf(last'.mgr)].ctx
           /\ sessions'[last'.ret[1]].ref = last'.ref
           /\ sessions'[BaseOf(last'.mgr)].ref = "main"
           /\ mgrs' = mgrs)]_vars

\* A session for "feature-1" was derived from a running "main" session.
C8_Witness ==
    /\ last.op = "session_for_ref" /\ last.exc = NoExc /\ last.ref = "feature-1"
    /\ sessions[last.ret[1]].ref = "feature-1"
    /\ sessions[BaseOf(last.mgr)].ref = "main"
    /\ ~contexts[sessions[BaseOf(last.mgr)].ctx].stopped

CallSeq(calls) == [i \in 1..Len(calls) |-> calls[i].fn]

\* C9: a construction whose URL is accepted makes no download and no
\* extraction call when the directory exists, only the extraction call when
\* just the archive exists, and the download call followed (once the download
\* has returned) by the extraction call when neither exists.
C9_SkipDownloadIfCached ==
    [][(last'.op = "init" /\ ReMatches(last'.url))
       => LET dir == AssetDir(ReGroup1(last'.url))
              tgz == AssetDir(ReGroup1(last'.url) \o TgzSuffix)
              fns == CallSeq(last'.calls)
          IN  /\ dir \in fs => fns = <<>>
              /\ (dir \notin fs /\ tgz \in fs) => fns = <<"tar">>
              /\ (dir \notin fs /\ tgz \notin fs) =>
                    /\ Len(fns) >= 1 /\ fns[1] = "wget"
                    /\ last'.failed # "wget" => fns = <<"wget", "tar">>]_vars

\* A construction found the archive but not the directory and only extracted.
C9_Witness ==
    /\ last.op = "init" /\ last.exc = NoExc
    /\ CallSeq(last.calls) = <<"tar">>

\* The URL's final path segment, i.e. what follows its last "/".
FinalSegment(url) ==
    LET S == {i \in 1..Len(url) : url[i] = "/"}
        i == CHOOSE x \in S : \A y \in S : y <= x
    IN  IF S = {} THEN url ELSE SubSeq(url, i + 1, Len(url))

\* <name>.tgz with a non-empty <name> of letters, digits, dots and hyphens.
IsTgzSegment(seg) ==
    /\ Len(seg) >= 5
    /\ SubSeq(seg, Len(seg) - 3, Len(seg)) = TgzSuffix
    /\ \A k \in 1..(Len(seg) - 4) : IsNameChar(seg[k])

\* C10: construction rejects the URL as invalid unless its final path segment
\* is <name>.tgz, and a construction that returns has used <name> as the
\* directory name.
C10_AcceptsExactlyTgz ==
    last.op = "init" =>
        LET seg == FinalSegment(last.url)
        IN  /\ (last.exc # InvalidUrl) <=> IsTgzSegment(seg)
            /\ last.exc = NoExc => environ = SubSeq(seg, 1, Len(seg) - 4)


\* C11: once dispose() has returned on a manager that held a session, the
\* engine's gateway has been shut down and the process-wide gateway and JVM
\* references are None.
C11_EngineRefsCleared ==
    [][(/\ last'.op = "dispose" /\ last'.exc = NoExc
        /\ Present(mgrs[last'.mgr], "__spark"))
       => (/\ engine'.gateway = None
           /\ engine'.jvm = None
           /\ ~engine'.gatewayUp)]_vars

\* C12: a dispose() of a manager without a session calls the handle's stop();
\* a dispose() of a manager with a session calls the session's stop() first
\* and, once that has returned, the handle's stop().
C12_StepsIndependent ==
    [][(last'.op = "dispose" /\ Present(mgrs[last'.mgr], "__demo"))
       => LET fns == CallSeq(last'.calls)
              m   == last'.mgr
          IN  /\ ~Present(mgrs[m], "__spark") =>
                    /\ fns = <<"demo.stop">>
                    /\ last'.calls[1].on = mgrs[m][SelfAttr("__demo")]
              /\ Present(mgrs[m], "__spark") =>
                    /\ Len(fns) >= 1 /\ fns[1] = "session.stop"
                    /\ last'.calls[1].on = BaseOf(m)
                    /\ last'.failed # "session.stop" =>
                          /\ fns = <<"session.stop", "demo.stop">>
                          /\ last'.calls[2].on = mgrs[m][SelfAttr("__demo")]]_vars

\* A manager that never had a session was disposed of and its handle stopped.
C12_Witness ==
    /\ last.op = "dispose" /\ last.exc = NoExc
    /\ ~Present(mgrs[last.mgr], "__spark")
    /\ CallSeq(last.calls) = <<"demo.stop">>
    /\ mstops[last.mgr].demo = 1


\* C13: spark_dispose() with a registered manager runs that manager's
\* dispose() and, once it has returned, the registry is empty; with an empty
\* registry it makes no call and changes nothing.
C13_DisposeCurrent ==
    [][(last'.op = "spark_dispose")
       => /\ current # None =>
                /\ last'.mgr = current
                /\ Len(last'.calls) >= 1
                /\ last'.calls[1] =
                      IF Present(mgrs[current], "__spark")
                      THEN Call("session.stop", BaseOf(current))
                      ELSE Call("demo.stop", mgrs[current][SelfAttr("__demo")])
                /\ last'.exc = NoExc =>
                      /\ current' = None
                      /\ Call("demo.stop", mgrs[current][SelfAttr("__demo")])
                            \in {last'.calls[i] : i \in 1..Len(last'.calls)}
          /\ current = None =>
                /\ last'.calls = <<>> /\ last'.exc = NoExc
                /\ UNCHANGED <<mgrs, current, sessions, contexts, engine, fs,
                               environ, mstops>>]_vars

\* spark_dispose() has disposed of the registered manager and emptied the slot.
C13_Witness ==
    /\ last.op = "spark_dispose" /\ last.exc = NoExc
    /\ last.mgr # None /\ current = None
    /\ mstops[last.mgr].demo >= 1


\* C14: __exit__, after a body that ended normally as after one that raised,
\* runs dispose(): it stops the session if the manager has one and then the
\* handle; __enter__ makes no call, changes nothing and returns the manager.
C14_ContextManager ==
    [][/\ (last'.op = "__exit__" /\ last'.failed = "none") =>
            /\ last'.ref \in ExcTypes
            /\ last'.exc = NoExc
            /\ last'.calls =
                  IF Present(mgrs[last'.mgr], "__spark")
                  THEN <<Call("session.stop", BaseOf(last'.mgr)),
                         Call("demo.stop", mgrs[last'.mgr][SelfAttr("__demo")])>>
                  ELSE <<Call("demo.stop", mgrs[last'.mgr][SelfAttr("__demo")])>>
            /\ mstops'[last'.mgr].demo = mstops[last'.mgr].demo + 1
       /\ (last'.op = "__enter__") =>
            /\ last'.calls = <<>> /\ last'.exc = NoExc
            /\ last'.ret = <<last'.mgr>>
            /\ UNCHANGED <<mgrs, current, sessions, contexts, engine, fs,
                           environ, mstops>>]_vars

\* A with-block whose body raised was left and the session and the handle of
\* its manager were stopped.
C14_Witness ==
    /\ last.op = "__exit__" /\ last.ref = "Exception" /\ last.exc = NoExc
    /\ CallSeq(last.calls) = <<"session.stop", "demo.stop">>
    /\ sessions[BaseOf(last.mgr)].stopped


\* C15: session_for_ref called directly after a returned dispose() of a
\* manager whose session that dispose() stopped raises AttributeError for the
\* missing base session, without asking the stopped session for a new one.
C15_UseAfterDispose ==
    [][(/\ last.op = "dispose" /\ last.exc = NoExc
        /\ "session.stop" \in CallNames(last.calls)
        /\ last'.op = "session_for_ref" /\ last'.mgr = last.mgr)
       => (/\ last'.exc = AttributeError
           /\ last'.calls = <<>>
           /\ sessions' = sessions)]_vars

\* C16: no manager has called its handle's stop() or its session's stop()
\* more than once.
C16_StopsAtMostOnce ==
    \A m \in Managers : mstops[m].demo <= 1 /\ mstops[m].sess <= 1

\* C17: a spark_for_demo whose construction fails has disposed of the
\* registered manager and leaves the registry empty; one whose
\* get_or_create_spark_context fails leaves the new manager registered without
\* session, runtime context and bridge handle; spark_dispose() on a registered
\* manager without a session calls its handle's stop().
C17_NoRollback ==
    [][/\ (/\ last'.op = "spark_for_demo"
           /\ (last'.exc = InvalidUrl \/ last'.failed \in {"wget", "tar"}))
          => /\ current' = None
             /\ Len(mgrs') = Len(mgrs)
             /\ current # None =>
                   Call("demo.stop", mgrs[current][SelfAttr("__demo")])
                      \in {last'.calls[i] : i \in 1..Len(last'.calls)}
       /\ (/\ last'.op = "spark_for_demo"
           /\ last'.failed \in {"getOrCreate", "java_import"})
          => /\ Len(mgrs') = Len(mgrs) + 1
             /\ current' = Len(mgrs')
             /\ \A f \in SessionFields : ~Present(mgrs'[current'], f)
       /\ (/\ last'.op = "spark_dispose" /\ current # None
           /\ ~Present(mgrs[current], "__spark"))
          => last'.calls = <<Call("demo.stop", mgrs[current][SelfAttr("__demo")])>>
      ]_vars


\* C18: when the finalizer runs and nessie.pid exists, the kill signal is sent
\* to the process id the file holds and the file is gone afterwards, also when
\* the kill call fails.
C18_PidFileRemoved ==
    [][(last'.op = "__kill_running_nessie" /\ pidfile # None)
       => (/\ Call("os.kill", pidfile)
                \in {last'.calls[i] : i \in 1..Len(last'.calls)}
           /\ pidfile' = None)]_vars

====
